---- MODULE Spec2Model ----
(***************************************************************************)
(* Model of the frontend of the BFF demo: the session state store          *)
(* (providers/AuthProvider.tsx), the authentication helpers (lib/auth.ts)  *)
(* and the HTTP client with error classification (lib/api.ts).             *)
(*                                                                         *)
(* JavaScript runs each continuation between two awaits to completion, and *)
(* React commits the state updates of one continuation in one render, so   *)
(* an action of the model is one such continuation.                        *)
(***************************************************************************)
EXTENDS Integers, Sequences, FiniteSets, TLC

VARIABLES
    user,             \* AuthProvider state: useState<User | null>(null)
    isLoading,        \* AuthProvider state: useState(true)
    error,            \* AuthProvider state: useState<string | null>(null)
    isAuthenticated,  \* the context value rendered from the state
    ops,              \* the invoked initialize/login/logout calls, by number
    started,          \* how many of them were invoked so far
    last,             \* the call that settled in the last step, if any
    authImpl,         \* which of the two definitions in lib/auth.ts is bound
    call,             \* a call made through the api wrapper of lib/api.ts
    calls,            \* how many api calls were made so far
    remote,           \* what GET /auth/me answers while the session is unchanged
    dash              \* the dashboard view (app/dashboard/page.tsx)

vars == <<user, isLoading, error, isAuthenticated, ops, started, last,
          authImpl, call, calls, remote, dash>>

\* Bounds of the model.
MaxOps == 3
MaxCalls == 2

----------------------------------------------------------------------------
(* JavaScript values                                                       *)

Null == [type |-> "null"]
Undefined == [type |-> "undefined"]

\* A field an object does not have reads as undefined; for the string
\* fields message and error_code that is the value Absent.
Absent == "<absent>"

Users ==
    { [type |-> "User", user_id |-> "1", username |-> "alice"],
      [type |-> "User", user_id |-> "2", username |-> "bob"] }

\* The body of a successful POST /auth/login: { user: User }.
LoginBody(u) == [type |-> "LoginBody", user |-> u]

\* The error body of the BFF: { message, error_code? }.
ErrorBody(m, c) == [type |-> "ErrorBody", message |-> m, error_code |-> c]

\* The body of a response that is not JSON, and one that fails to parse.
NotJson == [type |-> "text"]
Malformed == [type |-> "malformed"]

\* data.user
UserOf(data) == IF "user" \in DOMAIN data THEN data.user ELSE Undefined

\* data.message, data.error_code
Field(data, f) == IF f \in DOMAIN data THEN data[f] ELSE Absent

\* Truthiness of a string or undefined field.
TruthyField(s) == s \notin {Absent, ""}

\* !!user
MutIsAuthenticated(u) == u # Null
IsAuthenticated(u) == u \notin {Null, Undefined}

----------------------------------------------------------------------------
(* Errors                                                                  *)

ApiError(statusCode, message, errorData) ==
    [type |-> "ApiError", statusCode |-> statusCode, message |-> message,
     errorData |-> errorData, errorCode |-> Field(errorData, "error_code")]

JsError(type, message) == [type |-> type, message |-> message]

\* What fetch rejects with when no response arrives: a TypeError, which
\* Chromium words "Failed to fetch", Node "fetch failed" and WebKit
\* "Load failed".
FailedToFetch == JsError("TypeError", "Failed to fetch")
LoadFailed == JsError("TypeError", "Load failed")

\* response.json() of a body that is no JSON
JsonSyntaxError == JsError("SyntaxError", "Unexpected token")
\* reading a property of null
NullPropertyError == JsError("TypeError", "Cannot read properties of null")

\* error.message.includes('fetch')
IncludesFetch(message) == message \in {"Failed to fetch", "fetch failed"}

----------------------------------------------------------------------------
(* Notification texts of lib/api.ts                                        *)

MsgUnknown == "unknown error"
MsgBackendConnection == "cannot connect to the backend service"
MsgBackendTimeout == "the server is taking long to respond"
MsgCircuitOpen == "the service is temporarily unavailable"
MsgSessionExpired == "session expired, please log in again"
MsgConnectivity == "cannot connect to the server, check your connection"
MsgUnexpected == "an unexpected error occurred"
MsgNonJson(status) == "an error occurred (" \o ToString(status) \o ")"

----------------------------------------------------------------------------
(* Outcomes of the network call                                            *)

Rejected(e) == [type |-> "reject", error |-> e]
Response(status, contentType, body) ==
    [type |-> "response", status |-> status, contentType |-> contentType,
     body |-> body]

\* response.ok
Ok(resp) == resp.status >= 200 /\ resp.status <= 299

\* The Response object the client returns for a successful non-JSON body.
ResponseObject(resp) == [type |-> "Response", status |-> resp.status]

Return(v, toasts) == [kind |-> "return", value |-> v, toasts |-> toasts]
Throw(e, toasts) == [kind |-> "throw", value |-> e, toasts |-> toasts]

\* await response.json()
ResponseJson(resp) ==
    IF resp.body \in {NotJson, Malformed}
    THEN Throw(JsonSyntaxError, <<>>)
    ELSE Return(resp.body, <<>>)

----------------------------------------------------------------------------
(* lib/api.ts: fetchWithErrorHandling                                      *)

\* A notification that ignores the error code.
MutNotificationText(data, errorMessage) == errorMessage

\* The switch on data.error_code: the text of the notification.
NotificationText(data, errorMessage) ==
    LET code == Field(data, "error_code") IN
    IF TruthyField(code)
    THEN CASE code = "BACKEND_CONNECTION_ERROR" -> MsgBackendConnection
           [] code = "BACKEND_TIMEOUT" -> MsgBackendTimeout
           [] code = "CIRCUIT_OPEN" -> MsgCircuitOpen
           [] code = "HTTP_401" -> MsgSessionExpired
           [] OTHER -> errorMessage
    ELSE errorMessage

\* The try block: what it returns or throws, and the notifications shown.
FetchTry(out) ==
    IF out.type = "reject" THEN Throw(out.error, <<>>)
    ELSE IF out.contentType = "json"
    THEN LET parsed == ResponseJson(out) IN
         IF parsed.kind = "throw" THEN parsed
         ELSE LET data == parsed.value IN
              IF ~Ok(out)
              THEN IF data = Null THEN Throw(NullPropertyError, <<>>)
                   ELSE LET errorMessage ==
                                IF TruthyField(Field(data, "message"))
                                THEN Field(data, "message") ELSE MsgUnknown
                        IN Throw(ApiError(out.status, errorMessage, data),
                                 <<NotificationText(data, errorMessage)>>)
              ELSE Return(data, <<>>)
    ELSE IF ~Ok(out)
         THEN Throw(ApiError(out.status, MsgNonJson(out.status), Undefined),
                    <<MsgNonJson(out.status)>>)
         ELSE Return(ResponseObject(out), <<>>)

\* A catch block without the branch for an ApiError.
MutFetchCatch(t) ==
    IF t.kind = "return" THEN t
    ELSE IF t.value.type = "TypeError" /\ IncludesFetch(t.value.message)
    THEN Throw(ApiError(0, MsgConnectivity, Undefined),
               Append(t.toasts, MsgConnectivity))
    ELSE Throw(t.value, Append(t.toasts, MsgUnexpected))

\* The catch block applied to what the try block did.
FetchCatch(t) ==
    IF t.kind = "return" THEN t
    ELSE IF t.value.type = "ApiError" THEN t
    ELSE IF t.value.type = "TypeError" /\ IncludesFetch(t.value.message)
    THEN Throw(ApiError(0, MsgConnectivity, Undefined),
               Append(t.toasts, MsgConnectivity))
    ELSE Throw(t.value, Append(t.toasts, MsgUnexpected))

\* A catch block that notifies again for an ApiError it rethrows.
MutFetchWithErrorHandling(out) ==
    LET t == FetchTry(out) IN
    IF t.kind = "throw" /\ t.value.type = "ApiError"
    THEN Throw(t.value, Append(t.toasts, MsgUnexpected))
    ELSE FetchCatch(t)

FetchWithErrorHandling(out) == FetchCatch(FetchTry(out))

----------------------------------------------------------------------------
(* lib/auth.ts, first definitions (through the HTTP client)                *)

\* checkAuth: every failure is swallowed and null returned.
CheckAuth1(out) ==
    LET r == FetchWithErrorHandling(out) IN
    IF r.kind = "return" THEN r ELSE Return(Null, r.toasts)

\* loginUser: returns data.user, rethrows whatever is thrown.
LoginUser1(out) ==
    LET r == FetchWithErrorHandling(out) IN
    IF r.kind = "throw" THEN r
    ELSE IF r.value = Null THEN Throw(NullPropertyError, r.toasts)
    ELSE Return(UserOf(r.value), r.toasts)

\* logoutUser: every failure is swallowed.
LogoutUser1(out) ==
    Return(Undefined, FetchWithErrorHandling(out).toasts)

----------------------------------------------------------------------------
(* lib/auth.ts, second definitions (plain fetch)                           *)

CheckAuth2(out) ==
    IF out.type = "reject" THEN Return(Null, <<>>)
    ELSE IF Ok(out)
    THEN LET parsed == ResponseJson(out) IN
         IF parsed.kind = "throw" THEN Return(Null, <<>>) ELSE parsed
    ELSE Return(Null, <<>>)

LoginUser2(out) ==
    IF out.type = "reject" THEN Throw(out.error, <<>>)
    ELSE LET parsed == ResponseJson(out) IN
         IF parsed.kind = "throw" THEN parsed
         ELSE IF parsed.value = Null THEN Throw(NullPropertyError, <<>>)
         ELSE IF Ok(out) THEN Return(UserOf(parsed.value), <<>>)
         ELSE Throw(JsError("Error",
                            IF TruthyField(Field(parsed.value, "message"))
                            THEN Field(parsed.value, "message")
                            ELSE "login failed"), <<>>)

LogoutUser2(out) == Return(Undefined, <<>>)

\* A checkAuth that reads the user out of the body as loginUser does.
MutCheckAuth(impl, out) ==
    LET r == IF impl = 1 THEN CheckAuth1(out) ELSE CheckAuth2(out) IN
    Return(UserOf(r.value), r.toasts)

\* The definitions the provider is bound to.
CheckAuth(impl, out) == IF impl = 1 THEN CheckAuth1(out) ELSE CheckAuth2(out)
LoginUser(impl, out) == IF impl = 1 THEN LoginUser1(out) ELSE LoginUser2(out)

\* A logoutUser that lets the failure of the remote call through.
MutLogoutUser(impl, out) ==
    IF out.type = "response" /\ Ok(out) THEN Return(Undefined, <<>>)
    ELSE Throw(JsError("Error", "logout failed"), <<>>)

LogoutUser(impl, out) ==
    IF impl = 1 THEN LogoutUser1(out) ELSE LogoutUser2(out)

----------------------------------------------------------------------------
(* providers/AuthProvider.tsx                                              *)

\* error === null
NoError == "<null>"
ErrFailedToAuthenticate == "Failed to authenticate"
ErrLoginFailed == "Login failed. Please check your credentials."
ErrLogoutFailed == "Logout failed"

Fulfilled == [state |-> "fulfilled", reason |-> Undefined]
RejectedWith(e) == [state |-> "rejected", reason |-> e]

\* The state of the store, as the continuations read and write it.
Session == [user |-> user, isLoading |-> isLoading, error |-> error]

Settled(s, u, e, promise) ==
    [user |-> u, isLoading |-> FALSE, error |-> e, promise |-> promise]

\* initialize up to its await: setIsLoading(true).
InitializeBegin(s) == [s EXCEPT !.isLoading = TRUE]

\* An initialize that drops a user that is already present.
MutInitializeResume(s, r) ==
    IF r.kind = "return"
    THEN Settled(s, IF s.user = Null THEN r.value ELSE Null, s.error,
                 Fulfilled)
    ELSE Settled(s, s.user, ErrFailedToAuthenticate, Fulfilled)

\* initialize after its await, r being what checkAuth did.
InitializeResume(s, r) ==
    IF r.kind = "return"
    THEN Settled(s, r.value, s.error, Fulfilled)
    ELSE Settled(s, s.user, ErrFailedToAuthenticate, Fulfilled)

\* A login that does not clear the error.
MutLoginBegin(s) == [s EXCEPT !.isLoading = TRUE]

\* login up to its await: setIsLoading(true); setError(null).
LoginBegin(s) == [s EXCEPT !.isLoading = TRUE, !.error = NoError]

\* A login that swallows the failure instead of rethrowing it.
MutLoginResume(s, r) ==
    IF r.kind = "return"
    THEN Settled(s, r.value, s.error, Fulfilled)
    ELSE Settled(s, s.user, ErrLoginFailed, Fulfilled)

\* A login that drops the user when it fails.
MutLoginResumeClearsUser(s, r) ==
    IF r.kind = "return"
    THEN Settled(s, r.value, s.error, Fulfilled)
    ELSE Settled(s, Null, ErrLoginFailed, RejectedWith(r.value))

\* login after its await, r being what loginUser did.
LoginResume(s, r) ==
    IF r.kind = "return"
    THEN Settled(s, r.value, s.error, Fulfilled)
    ELSE Settled(s, s.user, ErrLoginFailed, RejectedWith(r.value))

\* logout up to its await: setIsLoading(true).
LogoutBegin(s) == [s EXCEPT !.isLoading = TRUE]

\* A logout without the finally block.
MutLogoutResume(s, r) ==
    IF r.kind = "return"
    THEN [user |-> Null, isLoading |-> s.isLoading, error |-> s.error,
          promise |-> Fulfilled]
    ELSE [user |-> s.user, isLoading |-> s.isLoading,
          error |-> ErrLogoutFailed, promise |-> Fulfilled]

\* A logout that sets the error whatever the remote call did.
MutLogoutResumeSetsError(s, r) ==
    IF r.kind = "return"
    THEN Settled(s, Null, ErrLogoutFailed, Fulfilled)
    ELSE Settled(s, s.user, ErrLogoutFailed, Fulfilled)

\* logout after its await, r being what logoutUser did.
LogoutResume(s, r) ==
    IF r.kind = "return"
    THEN Settled(s, Null, s.error, Fulfilled)
    ELSE Settled(s, s.user, ErrLogoutFailed, Fulfilled)

----------------------------------------------------------------------------
(* The calls in flight                                                     *)

NoBefore == [user |-> Null, error |-> NoError]

Idle == [kind |-> "none", pc |-> "idle", overlap |-> FALSE,
         before |-> NoBefore]
Done(kind) == [kind |-> kind, pc |-> "done", overlap |-> FALSE,
               before |-> NoBefore]
NoLast == [kind |-> "none"]

OpIds == 1..MaxOps
InFlight == {i \in OpIds : ops[i].pc = "pending"}

\* The responses and transport failures the three /auth endpoints are
\* driven with.
AuthOutcomes ==
    {Rejected(FailedToFetch), Rejected(LoadFailed)}
    \cup {Response(200, "json", u) : u \in Users}
    \cup {Response(200, "json", LoginBody(u)) : u \in Users}
    \cup {Response(200, "json", Null), Response(200, "other", NotJson)}
    \cup {Response(401, "json", ErrorBody("session expired", "HTTP_401")),
          Response(401, "json", ErrorBody("not authenticated", Absent)),
          Response(401, "other", NotJson)}
    \cup {Response(500, "json", ErrorBody(Absent, "BACKEND_TIMEOUT")),
          Response(500, "json", Malformed)}

\* What the helper of lib/auth.ts that the call awaits did with the outcome
\* of its network call.
LibResult(kind, out) ==
    CASE kind = "initialize" -> CheckAuth(authImpl, out)
      [] kind = "login" -> LoginUser(authImpl, out)
      [] kind = "logout" -> LogoutUser(authImpl, out)

\* Rendering the provider: the context value is computed from the state.
Commit(n) ==
    /\ user' = n.user
    /\ isLoading' = n.isLoading
    /\ error' = n.error
    /\ isAuthenticated' = IsAuthenticated(n.user)

\* A call is invoked: it runs up to the fetch it awaits.
Start(kind, n) ==
    /\ started < MaxOps
    /\ started' = started + 1
    /\ ops' = [i \in OpIds |->
                 IF i = started + 1
                 THEN [kind |-> kind, pc |-> "pending",
                       overlap |-> InFlight # {},
                       before |-> [user |-> user, error |-> error]]
                 ELSE IF i \in InFlight
                 THEN [ops[i] EXCEPT !.overlap = TRUE]
                 ELSE ops[i]]
    /\ Commit(n)
    /\ last' = NoLast
    /\ UNCHANGED <<authImpl, call, calls, remote>>

\* The effect of the provider runs at mount; a development build runs it
\* again (strict mode, fast refresh) as long as the user has not acted.
InitializeInvoked ==
    /\ \A i \in OpIds : ops[i].kind \in {"none", "initialize"}
    /\ Start("initialize", InitializeBegin(Session))

LoginInvoked ==
    /\ started >= 1
    /\ Start("login", LoginBegin(Session))

LogoutInvoked ==
    /\ started >= 1
    /\ Start("logout", LogoutBegin(Session))

\* The same with no dashboard on the page.
InitializeStart == InitializeInvoked /\ UNCHANGED dash
LoginStart == LoginInvoked /\ UNCHANGED dash
LogoutStart == LogoutInvoked /\ UNCHANGED dash

\* The network call of a pending call completes with out. What follows is
\* a chain of promise reactions (the client, the helper of lib/auth.ts, the
\* provider's continuation), which the event loop runs without letting a
\* user event or another completion in between.
Settle(i, kind, out, n, observed) ==
    /\ ops[i].pc = "pending"
    /\ ops[i].kind = kind
    /\ Commit(n)
    /\ ops' = [ops EXCEPT ![i] = Done(kind)]
    /\ last' = observed
    /\ UNCHANGED <<started, authImpl, call, calls, remote>>

\* What is recorded of a call that settles: its network outcome, whether it
\* overlapped another call, the user and error it started from, how its
\* promise settled and the notifications shown on its behalf.
Observed(i, kind, out, n) ==
    [kind |-> kind, net |-> out, overlap |-> ops[i].overlap,
     before |-> ops[i].before, promise |-> n.promise,
     toasts |-> LibResult(kind, out).toasts]

InitializeSettle(i) ==
    \E out \in AuthOutcomes :
        LET n == InitializeResume(Session, LibResult("initialize", out))
        IN /\ Settle(i, "initialize", out, n, Observed(i, "initialize", out, n))
           /\ UNCHANGED dash

LoginSettle(i) ==
    \E out \in AuthOutcomes :
        LET n == LoginResume(Session, LibResult("login", out))
        IN /\ Settle(i, "login", out, n, Observed(i, "login", out, n))
           /\ UNCHANGED dash

LogoutSettle(i) ==
    \E out \in AuthOutcomes :
        LET n == LogoutResume(Session, LibResult("logout", out))
        IN /\ Settle(i, "logout", out, n, Observed(i, "logout", out, n))
           /\ UNCHANGED dash

\* No dashboard on the page, and nothing fixed about the remote session.
NoDash == [mounted |-> FALSE]
AnyRemote == [type |-> "any"]

\* The provider as it is created.
Created ==
    /\ user = Null
    /\ isLoading = TRUE
    /\ error = NoError
    /\ isAuthenticated = IsAuthenticated(Null)
    /\ ops = [i \in OpIds |-> Idle]
    /\ started = 0
    /\ last = NoLast
    /\ authImpl \in {1, 2}
    /\ call = [pc |-> "idle"]
    /\ calls = 0

Init ==
    /\ Created
    /\ remote = AnyRemote
    /\ dash = NoDash

Next ==
    \/ InitializeStart
    \/ LoginStart
    \/ LogoutStart
    \/ \E i \in OpIds : InitializeSettle(i)
    \/ \E i \in OpIds : LoginSettle(i)
    \/ \E i \in OpIds : LogoutSettle(i)

Spec == Init /\ [][Next]_vars

----------------------------------------------------------------------------
(* The HTTP client on its own: the api wrapper of lib/api.ts               *)

Methods == {"GET", "POST", "PUT", "DELETE"}
Statuses == {200, 401, 404, 500}
ErrorCodes == {Absent, "BACKEND_CONNECTION_ERROR", "BACKEND_TIMEOUT",
               "CIRCUIT_OPEN", "HTTP_401", "RATE_LIMITED"}
Messages == {Absent, "", "invalid credentials"}

JsonBodies ==
    Users \cup {LoginBody(u) : u \in Users} \cup {Null, Malformed}
    \cup {ErrorBody(m, c) : m \in Messages, c \in ErrorCodes}

\* Everything a call of fetch can do.
AllOutcomes ==
    {Rejected(e) : e \in {FailedToFetch, LoadFailed}}
    \cup {Response(st, "json", b) : st \in Statuses, b \in JsonBodies}
    \cup {Response(st, "other", NotJson) : st \in Statuses}

\* api.get / api.post / api.put / api.delete up to the fetch.
ApiRequest ==
    /\ calls < MaxCalls
    /\ call.pc # "pending"
    /\ \E m \in Methods : call' = [pc |-> "pending", method |-> m]
    /\ calls' = calls + 1
    /\ UNCHANGED <<user, isLoading, error, isAuthenticated, ops, started,
                   last, authImpl, remote, dash>>

\* The fetch of the call completes with out; the client returns or throws.
ApiSettle ==
    /\ call.pc = "pending"
    /\ \E out \in AllOutcomes :
          call' = [pc |-> "settled", method |-> call.method, net |-> out,
                   result |-> FetchWithErrorHandling(out)]
    /\ UNCHANGED <<user, isLoading, error, isAuthenticated, ops, started,
                   last, authImpl, calls, remote, dash>>

ClientNext == ApiRequest \/ ApiSettle

ClientSpec == Init /\ [][ClientNext]_vars

----------------------------------------------------------------------------
(* The store with nothing recorded of the calls that settle                *)

\* The event loop runs every continuation that is ready, and the claims
\* about progress are about network calls that complete.
Resume(kind, s, r) ==
    CASE kind = "initialize" -> InitializeResume(s, r)
      [] kind = "login" -> LoginResume(s, r)
      [] kind = "logout" -> LogoutResume(s, r)

SettleUnrecorded(i) ==
    \E out \in AuthOutcomes :
        Settle(i, ops[i].kind, out,
               Resume(ops[i].kind, Session, LibResult(ops[i].kind, out)),
               NoLast)

SettleOp(i) == SettleUnrecorded(i) /\ UNCHANGED dash

FairNext ==
    \/ InitializeStart
    \/ LoginStart
    \/ LogoutStart
    \/ \E i \in OpIds : SettleOp(i)

FairSpec ==
    Init /\ [][FairNext]_vars /\ \A i \in OpIds : WF_vars(SettleOp(i))

----------------------------------------------------------------------------
(* initialize called in sequence against a remote session that stays as it *)
(* is: GET /auth/me answers every check the same way                       *)

SeqInit ==
    /\ Created
    /\ remote \in AuthOutcomes
    /\ dash = NoDash

\* initialize is called when no call is in flight.
SeqInitializeStart ==
    /\ InFlight = {}
    /\ InitializeStart

\* The check settles with the answer of the remote session.
SeqInitializeSettle(i) ==
    LET n == InitializeResume(Session, LibResult("initialize", remote))
    IN /\ Settle(i, "initialize", remote, n,
                 Observed(i, "initialize", remote, n))
       /\ UNCHANGED dash

SeqNext ==
    \/ SeqInitializeStart
    \/ \E i \in OpIds : SeqInitializeSettle(i)

SeqSpec == SeqInit /\ [][SeqNext]_vars

----------------------------------------------------------------------------
(* app/dashboard/page.tsx: the protected dashboard under the provider      *)

NoViewError == "<null>"
ErrFetchItemsFailed == "Failed to fetch items"
ErrFetchItemsThrew == "An error occurred while fetching items"

\* The body of a successful GET /api/items.
ItemsBody == [type |-> "Items"]
NoItems == [type |-> "EmptyArray"]

\* What the gating of the render lets through.
Render(loading, authenticated) ==
    IF loading THEN "loading"
    ELSE IF ~authenticated THEN "nothing"
    ELSE "content"

\* A redirect effect that depends on isAuthenticated alone.
MutRedirectRuns(pl, pa, l, a) == pa # a /\ ~l /\ ~a

\* The redirect effect after a render in which its dependencies went from
\* (pl, pa) to (l, a): whether router.push('/login') is called.
RedirectRuns(pl, pa, l, a) == (pl # l \/ pa # a) /\ ~l /\ ~a

\* A fetch of the items whatever the session says.
MutFetchGuard(authenticated) == TRUE

\* The condition under which the effect calls fetchItems and fetchItems
\* goes on to its fetch.
FetchGuard(authenticated) == authenticated

\* The items effect after a render in which isAuthenticated went from pa
\* to a: whether GET /api/items is issued.
FetchRuns(pa, a) == pa # a /\ FetchGuard(a)

\* The dashboard as it is after its first render and its effects.
Mounted(l, a) ==
    [mounted |-> TRUE,
     rendered |-> Render(l, a),
     items |-> NoItems,
     itemsLoading |-> TRUE,
     viewError |-> NoViewError,
     fetching |-> IF FetchGuard(a) THEN 1 ELSE 0,
     nav |-> IF ~l /\ ~a THEN "/login" ELSE "none",
     awaiting |-> {}]

\* The dashboard d after the provider committed a state in which isLoading
\* and isAuthenticated went from (pl, pa) to (l, a).
Rerendered(d, pl, pa, l, a) ==
    [d EXCEPT !.rendered = Render(l, a),
              !.nav = IF RedirectRuns(pl, pa, l, a) THEN "/login" ELSE @,
              !.itemsLoading = IF FetchRuns(pa, a) THEN TRUE ELSE @,
              !.fetching = IF FetchRuns(pa, a) THEN @ + 1 ELSE @]

\* The dashboard, if there is one, follows the step of the provider.
Shown(d) ==
    IF d.mounted
    THEN Rerendered(d, isLoading, isAuthenticated, isLoading',
                    isAuthenticated')
    ELSE d

\* fetchItems after its await.
ItemsResume(d, out) ==
    LET parsed == IF out.type = "response" THEN ResponseJson(out)
                  ELSE Throw(out.error, <<>>)
        e == IF out.type = "reject" THEN ErrFetchItemsThrew
             ELSE IF ~Ok(out) THEN ErrFetchItemsFailed
             ELSE IF parsed.kind = "throw" THEN ErrFetchItemsThrew
             ELSE d.viewError
    IN [d EXCEPT !.items = IF out.type = "response" /\ Ok(out)
                              /\ parsed.kind = "return"
                           THEN parsed.value ELSE @,
                 !.viewError = e,
                 !.itemsLoading = FALSE,
                 !.fetching = @ - 1]

\* The answers the /auth endpoints and /api/items are driven with here.
DashAuthOutcomes ==
    {Rejected(FailedToFetch),
     Response(200, "json", [type |-> "User", user_id |-> "1",
                            username |-> "alice"]),
     Response(200, "json", LoginBody([type |-> "User", user_id |-> "1",
                                      username |-> "alice"])),
     Response(401, "json", ErrorBody("session expired", "HTTP_401"))}

ItemsOutcomes ==
    {Rejected(FailedToFetch),
     Response(200, "json", ItemsBody),
     Response(200, "other", NotJson),
     Response(401, "json", ErrorBody("session expired", "HTTP_401")),
     Response(500, "other", NotJson)}

\* The browser shows /dashboard.
DashMount ==
    /\ ~dash.mounted
    /\ dash' = Mounted(isLoading, isAuthenticated)
    /\ UNCHANGED <<user, isLoading, error, isAuthenticated, ops, started,
                   last, authImpl, call, calls, remote>>

\* The browser leaves /dashboard: the navigation asked for, or any other.
DashUnmount ==
    /\ dash.mounted
    /\ dash' = NoDash
    /\ UNCHANGED <<user, isLoading, error, isAuthenticated, ops, started,
                   last, authImpl, call, calls, remote>>

DashInitializeStart == InitializeInvoked /\ dash' = Shown(dash)

\* login is called from another page or while the dashboard is shown.
DashLoginStart == LoginInvoked /\ dash' = Shown(dash)

\* handleLogout up to await logout().
HandleLogout ==
    /\ dash.mounted
    /\ dash.rendered = "content"
    /\ LogoutInvoked
    /\ dash' = [Shown(dash) EXCEPT !.awaiting = @ \cup {started + 1}]

\* A call of the provider settles; handleLogout, if it awaited the call,
\* goes on to router.push('/login').
DashSettleWith(i, out) ==
    /\ Settle(i, ops[i].kind, out,
              Resume(ops[i].kind, Session, LibResult(ops[i].kind, out)),
              NoLast)
    /\ dash' = IF dash.mounted /\ i \in dash.awaiting
               THEN [Shown(dash) EXCEPT !.nav = "/login",
                                        !.awaiting = @ \ {i}]
               ELSE Shown(dash)

DashSettle(i) == \E out \in DashAuthOutcomes : DashSettleWith(i, out)

\* GET /api/items completes with out.
ItemsSettleWith(out) ==
    /\ dash.mounted
    /\ dash.fetching > 0
    /\ dash' = ItemsResume(dash, out)
    /\ UNCHANGED <<user, isLoading, error, isAuthenticated, ops, started,
                   last, authImpl, call, calls, remote>>

ItemsSettle == \E out \in ItemsOutcomes : ItemsSettleWith(out)

DashNext ==
    \/ DashMount
    \/ DashUnmount
    \/ DashInitializeStart
    \/ DashLoginStart
    \/ HandleLogout
    \/ \E i \in OpIds : DashSettle(i)
    \/ ItemsSettle

DashSpec == Init /\ [][DashNext]_vars

----------------------------------------------------------------------------
(* Properties of the session state store                                   *)

\* A network call failed: no response, or a response that is not 2xx.
NetFailed(out) == out.type = "reject" \/ ~Ok(out)

\* C1: in every reachable state, mid-operation states included, the exposed
\* isAuthenticated flag is true if and only if a user is present (neither
\* null nor undefined).
C1_AuthenticatedIffUser ==
    isAuthenticated <=> (user # Null /\ user # Undefined)

C1_Witness ==
    /\ isAuthenticated
    /\ user \in Users
    /\ InFlight # {}

\* C2: when a logout settles, user is absent and isLoading is false, for
\* every outcome of the remote call and whatever the user was before.
C2_LogoutClears ==
    last.kind = "logout" => (user = Null /\ isLoading = FALSE)

C2_Witness ==
    /\ last.kind = "logout"
    /\ NetFailed(last.net)
    /\ last.before.user \in Users
    /\ user = Null

\* C3: when a login fails (no response, or a response that is not 2xx), the
\* call rejects with the failure loginUser raised, isLoading is false and
\* error holds a message.
C3_LoginFailure ==
    (last.kind = "login" /\ NetFailed(last.net)) =>
        /\ last.promise.state = "rejected"
        /\ last.promise.reason = LoginUser(authImpl, last.net).value
        /\ isLoading = FALSE
        /\ error = ErrLoginFailed

C3_Witness ==
    /\ last.kind = "login"
    /\ last.net.type = "reject"
    /\ last.promise.state = "rejected"
    /\ error = ErrLoginFailed

\* The response is 200 with a user in its body.
LoginSucceeded(out) ==
    /\ out.type = "response"
    /\ Ok(out)
    /\ out.body \in {LoginBody(u) : u \in Users}

\* C4: when a login that overlapped no other call succeeds, user is exactly
\* the returned identity, isAuthenticated is true, isLoading is false and
\* error is absent, whatever error held before.
C4_LoginSuccess ==
    (last.kind = "login" /\ ~last.overlap /\ LoginSucceeded(last.net)) =>
        /\ user = last.net.body.user
        /\ isAuthenticated
        /\ isLoading = FALSE
        /\ error = NoError

C4_Witness ==
    /\ last.kind = "login"
    /\ ~last.overlap
    /\ LoginSucceeded(last.net)
    /\ last.before.error # NoError
    /\ user = last.net.body.user

\* C5: for every 401 response to the session check of initialize, user is
\* absent once initialize settles and no notification was shown during the
\* check.
C5_Unauthorized401Silent ==
    (last.kind = "initialize" /\ last.net.type = "response"
         /\ last.net.status = 401) =>
        /\ user = Null
        /\ last.toasts = <<>>

\* The response is 2xx with a User as its JSON body.
CheckSucceeded(out) ==
    /\ out.type = "response"
    /\ Ok(out)
    /\ out.contentType = "json"
    /\ out.body \in Users

\* C6: the store is created with user absent and isLoading true, and for
\* every successful /auth/me response, once initialize settles user is the
\* decoded body, isAuthenticated is true and isLoading is false.
C6_InitializeSuccess ==
    /\ started = 0 => (user = Null /\ isLoading = TRUE)
    /\ (last.kind = "initialize" /\ CheckSucceeded(last.net)) =>
          /\ user = last.net.body
          /\ isAuthenticated
          /\ isLoading = FALSE

C6_Witness ==
    /\ last.kind = "initialize"
    /\ CheckSucceeded(last.net)
    /\ started = 1
    /\ user = last.net.body

\* C9: initialize never throws, and when its session check fails it settles
\* with user absent, isLoading false and the failure recorded in error.
C9_InitializeFailureRecorded ==
    (last.kind = "initialize" /\ NetFailed(last.net)) =>
        /\ last.promise.state = "fulfilled"
        /\ user = Null
        /\ isLoading = FALSE
        /\ error # NoError

\* C10: every invoked call whose network call completes settles, and
\* whenever initialize has started and no call is in flight, isLoading is
\* false.
C10_LoadingReleased ==
    /\ \A i \in OpIds : (ops[i].pc = "pending") ~> (ops[i].pc = "done")
    /\ []((started >= 1 /\ InFlight = {}) => isLoading = FALSE)

C10_Witness ==
    /\ started >= 2
    /\ InFlight = {}
    /\ \E i \in OpIds : ops[i] = Done("logout")
    /\ isLoading = FALSE

\* C11: in every reachable state, overlapping calls included, isLoading is
\* true whenever at least one call is in flight.
C11_LoadingWhileInFlight ==
    InFlight # {} => isLoading = TRUE

\* C12: when calls overlapped and all have settled, isLoading, error and
\* user are those determined by the call that resolved last; in particular,
\* when that call is a successful login, user is its identity, isLoading is
\* false and error is absent.
C12_LastToResolveDetermines ==
    (last.kind = "login" /\ LoginSucceeded(last.net) /\ last.overlap
         /\ InFlight = {}) =>
        /\ isLoading = FALSE
        /\ user = last.net.body.user
        /\ error = NoError

\* A step in which GET /api/items is issued by the dashboard.
FetchIssued ==
    /\ dash'.mounted
    /\ dash'.fetching > (IF dash.mounted THEN dash.fetching ELSE 0)

\* The fetch of the items failed: no response, a response that is not 2xx,
\* or a body that cannot be read.
ItemsFailed(out) == NetFailed(out) \/ ResponseJson(out).kind = "throw"

\* C16: the dashboard issues GET /api/items only in steps that leave
\* isAuthenticated true, and a failure of that fetch sets the view's own
\* error and itemsLoading only: user, isLoading and error of the session
\* (and the items already shown) stay as they are.
C16_ItemsFetchLocal ==
    [][/\ FetchIssued => isAuthenticated'
       /\ \A out \in ItemsOutcomes :
             (ItemsSettleWith(out) /\ ItemsFailed(out)) =>
                 /\ UNCHANGED <<user, isLoading, error, isAuthenticated>>
                 /\ dash'.viewError \in {ErrFetchItemsFailed,
                                         ErrFetchItemsThrew}
                 /\ dash'.itemsLoading = FALSE
                 /\ dash'.items = dash.items]_vars

\* A fetch of the items has failed under a session that is still logged in.
C16_Witness ==
    /\ dash.mounted
    /\ dash.viewError = ErrFetchItemsFailed
    /\ dash.itemsLoading = FALSE
    /\ dash.fetching = 0
    /\ user \in Users
    /\ isAuthenticated
    /\ error = NoError

\* C17: the dashboard shows only the loading affordance while isLoading,
\* shows the authenticated content only when isLoading is false and
\* isAuthenticated is true, and has asked for the navigation to /login
\* whenever the session is settled and unauthenticated.
C17_DashboardGating ==
    dash.mounted =>
        /\ isLoading => dash.rendered = "loading"
        /\ dash.rendered = "content" => (~isLoading /\ isAuthenticated)
        /\ (~isLoading /\ isAuthenticated) => dash.rendered = "content"
        /\ (~isLoading /\ ~isAuthenticated) =>
               (dash.rendered = "nothing" /\ dash.nav = "/login")

\* The session check settled without a user while the dashboard was shown.
C17_Witness ==
    /\ dash.mounted
    /\ started = 1
    /\ ops[1] = Done("initialize")
    /\ ~isLoading
    /\ ~isAuthenticated
    /\ dash.rendered = "nothing"
    /\ dash.nav = "/login"

\* C13: initialize called again in sequence, with no login or logout in
\* between and the remote session unchanged, settles with the user the
\* previous call settled with.
C13_InitializeIdempotent ==
    (last.kind = "initialize" /\ started >= 2) => user = last.before.user

\* The second check of an authenticated session has settled.
C13_Witness ==
    /\ last.kind = "initialize"
    /\ started >= 2
    /\ user \in Users
    /\ last.before.user = user

\* C18: logout never re-raises, and a logout whose remote call succeeds
\* leaves error as it was (error is set, if at all, only when the remote
\* call fails).
C18_LogoutErrorOnlyOnFailure ==
    last.kind = "logout" =>
        /\ last.promise.state = "fulfilled"
        /\ (~NetFailed(last.net) /\ ~last.overlap) =>
              error = last.before.error

C18_Witness ==
    /\ last.kind = "logout"
    /\ ~NetFailed(last.net)
    /\ ~last.overlap
    /\ last.before.error = ErrLoginFailed
    /\ error = ErrLoginFailed

\* The step invokes logout.
InvokesLogout ==
    /\ started' = started + 1
    /\ ops'[started'].kind = "logout"

\* C19: once a login has settled successfully, user stays present until a
\* logout is invoked: the step that follows the login's settling, unless
\* it invokes logout, leaves a user present (in particular when it is the
\* settling of a session check that was in flight when login was invoked
\* and that found no user).
C19_LoggedInUntilLogout ==
    [][(last.kind = "login" /\ LoginSucceeded(last.net) /\ user \in Users
            /\ ~InvokesLogout)
        => user' \notin {Null, Undefined}]_vars

\* C20: a failed login leaves user unchanged: with no other call
\* overlapping it, user after the call is the user before it.
C20_FailedLoginKeepsUser ==
    (last.kind = "login" /\ last.promise.state = "rejected"
         /\ ~last.overlap) =>
        user = last.before.user

C20_Witness ==
    /\ last.kind = "login"
    /\ NetFailed(last.net)
    /\ last.promise.state = "rejected"
    /\ ~last.overlap
    /\ last.before.user \in Users
    /\ user = last.before.user

----------------------------------------------------------------------------
(* Properties of the HTTP client                                           *)

\* A response that is not 2xx came back to a call of the client.
FailedResponse ==
    /\ call.pc = "settled"
    /\ call.net.type = "response"
    /\ ~Ok(call.net)

\* The body of the response is a JSON object (it parsed, and is not null).
JsonObjectBody(out) ==
    out.contentType = "json" /\ out.body \notin {Null, Malformed}

\* C7 as stated: for every non-2xx response exactly one notification is
\* shown and the call fails with an ApiError carrying the response's status
\* and the message the server supplied.
C7_Original ==
    FailedResponse =>
        /\ Len(call.result.toasts) = 1
        /\ call.result.kind = "throw"
        /\ call.result.value.type = "ApiError"
        /\ call.result.value.statusCode = call.net.status
        /\ call.result.value.message = Field(call.net.body, "message")

\* C7: for every non-2xx response exactly one notification is shown. With
\* a JSON object as body the call fails with an ApiError of the response's
\* status whose message is the server's, or a fixed default when the server
\* sent none or an empty one; with a body that is not JSON it fails with an
\* ApiError of the response's status and a generic message naming the
\* status; with a JSON body that is null or does not parse it fails with
\* the error of reading it, not with an ApiError.
C7_FailedResponse ==
    FailedResponse =>
        /\ Len(call.result.toasts) = 1
        /\ call.result.kind = "throw"
        /\ JsonObjectBody(call.net) =>
              /\ call.result.value.type = "ApiError"
              /\ call.result.value.statusCode = call.net.status
              /\ call.result.value.message =
                    IF Field(call.net.body, "message") \in {Absent, ""}
                    THEN MsgUnknown
                    ELSE Field(call.net.body, "message")
        /\ call.net.contentType # "json" =>
              /\ call.result.value.type = "ApiError"
              /\ call.result.value.statusCode = call.net.status
              /\ call.result.value.message = MsgNonJson(call.net.status)
        /\ (call.net.contentType = "json" /\ ~JsonObjectBody(call.net)) =>
              call.result.value.type \in {"SyntaxError", "TypeError"}

C7_Witness ==
    /\ FailedResponse
    /\ JsonObjectBody(call.net)
    /\ Field(call.net.body, "error_code") = "RATE_LIMITED"
    /\ call.result.value.message = "invalid credentials"
    /\ call.result.toasts = <<"invalid credentials">>

\* C8: for every transport failure (fetch rejects without a response) the
\* client throws an ApiError of status 0 and shows the connectivity
\* notification exactly once.
C8_TransportFailure ==
    (call.pc = "settled" /\ call.net.type = "reject") =>
        /\ call.result.kind = "throw"
        /\ call.result.value.type = "ApiError"
        /\ call.result.value.statusCode = 0
        /\ call.result.toasts = <<MsgConnectivity>>

\* An ApiError was constructed inside the call that settled.
ApiErrorRaisedInside ==
    /\ call.pc = "settled"
    /\ FetchTry(call.net).kind = "throw"
    /\ FetchTry(call.net).value.type = "ApiError"

\* C14: an ApiError constructed inside a call of the client reaches the
\* caller as it was constructed (status, message, payload), with no
\* notification added by the outer catch block and without being turned
\* into a transport error (status 0) or an unexpected error.
C14_ApiErrorPropagated ==
    ApiErrorRaisedInside =>
        /\ call.result.kind = "throw"
        /\ call.result.value = FetchTry(call.net).value
        /\ call.result.value.statusCode = call.net.status
        /\ call.result.toasts = FetchTry(call.net).toasts
        /\ MsgConnectivity \notin {call.result.toasts[k] :
                                      k \in 1..Len(call.result.toasts)}
        /\ MsgUnexpected \notin {call.result.toasts[k] :
                                    k \in 1..Len(call.result.toasts)}

C14_Witness ==
    /\ ApiErrorRaisedInside
    /\ call.net.status = 404
    /\ call.net.contentType = "other"
    /\ call.result.value = ApiError(404, MsgNonJson(404), Undefined)
    /\ call.result.toasts = <<MsgNonJson(404)>>

\* The notification the error-code table gives for a body, fallback being
\* the text used when the code is absent or not in the table.
TableText(body, fallback) ==
    LET code == Field(body, "error_code") IN
    CASE code = "BACKEND_CONNECTION_ERROR" -> MsgBackendConnection
      [] code = "BACKEND_TIMEOUT" -> MsgBackendTimeout
      [] code = "CIRCUIT_OPEN" -> MsgCircuitOpen
      [] code = "HTTP_401" -> MsgSessionExpired
      [] OTHER -> fallback

\* C15 as stated: for a failed JSON response the notification is the
\* message of the error code, or the server-supplied message verbatim when
\* the code is absent or not enumerated, and the ApiError signalled carries
\* the response status, the message and the raw payload.
C15_Original ==
    (FailedResponse /\ call.net.contentType = "json") =>
        /\ call.result.kind = "throw"
        /\ call.result.toasts =
              <<TableText(call.net.body, Field(call.net.body, "message"))>>
        /\ call.result.value.type = "ApiError"
        /\ call.result.value.statusCode = call.net.status
        /\ call.result.value.message = Field(call.net.body, "message")
        /\ call.result.value.errorData = call.net.body

\* The message the client reads from a JSON object: the server's, or a
\* fixed default when the server sent none or an empty one.
ErrorMessageOf(body) ==
    IF Field(body, "message") \in {Absent, ""}
    THEN MsgUnknown
    ELSE Field(body, "message")

\* C15: for a failed response whose body is a JSON object, the notification
\* is the message of the error code for the four enumerated codes and
\* otherwise the server-supplied message, or a fixed default when the
\* server sent no message or an empty one; the ApiError signalled carries
\* the response status, that message and the raw payload. A failed response
\* whose JSON body is null or does not parse signals the error of reading
\* it with the notification of an unexpected error.
C15_NotificationByCode ==
    /\ (FailedResponse /\ JsonObjectBody(call.net)) =>
          /\ call.result.kind = "throw"
          /\ call.result.toasts =
                <<TableText(call.net.body, ErrorMessageOf(call.net.body))>>
          /\ call.result.value =
                ApiError(call.net.status, ErrorMessageOf(call.net.body),
                         call.net.body)
    /\ (FailedResponse /\ call.net.contentType = "json"
          /\ ~JsonObjectBody(call.net)) =>
          /\ call.result.kind = "throw"
          /\ call.result.value.type \in {"SyntaxError", "TypeError"}
          /\ call.result.toasts = <<MsgUnexpected>>

C15_Witness ==
    /\ FailedResponse
    /\ JsonObjectBody(call.net)
    /\ Field(call.net.body, "error_code") = "CIRCUIT_OPEN"
    /\ Field(call.net.body, "message") = "invalid credentials"
    /\ call.result.toasts = <<MsgCircuitOpen>>
    /\ call.result.value.message = "invalid credentials"

====
